---- MODULE Spec2Model ----
(***************************************************************************)
(* KLineChart rendering and interaction core.                              *)
(*                                                                         *)
(*   DrawWidget   (src/src/widget/DrawWidget.ts): two stacked canvases,    *)
(*                tiered invalidation, one coalesced animation frame.      *)
(*   GraphicMark  (src/src/data/base/mark/GraphicMark.js): multi-step      *)
(*                placement of an annotation, hover and drag bookkeeping,  *)
(*                drawing of the derived groups.                           *)
(*   CandleWidget (src/unnamed/part_000) with CandleAreaView               *)
(*                (src/unnamed/part_001) and SessionBreakView              *)
(*                (src/src/view/SessionBreakView.ts): the main content of  *)
(*                the candle pane, the ripple animation, session breaks.   *)
(*                                                                         *)
(* Each component has its own specifications (SpecWidget and SpecHost,     *)
(* SpecMark and SpecMarkDraw, SpecArea and SpecSession); the variables of  *)
(* the other components keep their initial values there.                   *)
(***************************************************************************)
EXTENDS Integers, Sequences, FiniteSets

(***************************************************************************)
(* Bounds of the model.                                                    *)
(***************************************************************************)
\* updateImp calls (= animation frames requested) in one behaviour
MaxRequests == 4
\* the reported bounding width and height range over 0..MaxDim
MaxDim == 1
\* the reported bounding left ranges over 0..MaxLeft
MaxLeft == 1
\* marks are constructed with totalStep in 1..MaxTotalStep
MaxTotalStep == 3
\* mouseLeftButtonDownForDrawing calls in one behaviour
MaxClicks == 3
\* mouse positions lie on the diagonal of the square (0..MaxPixel) x (0..MaxPixel)
MaxPixel == 1
\* a subclass' createGraphicOptions yields at most MaxShapes checked shapes
MaxShapes == 1
\* a subclass' createGraphicOptions yields at most MaxGroups drawable groups
MaxGroups == 2
\* the visible window holds at most MaxVisible data points
MaxVisible == 3
\* animation frames between two draw passes
MaxFrames == 2

(***************************************************************************)
(* DrawWidget                                                              *)
(***************************************************************************)
VARIABLES
  requestAnimationId,  \* this._requestAnimationId
  frameQueue,          \* the host's pending animation-frame callbacks: [id, update]
  nextFrameId,         \* the handle the host's next requestAnimationFrame returns
  container,           \* the container element: style.left, offsetWidth, offsetHeight
  mainCanvas,          \* this._mainCanvas
  overlayCanvas,       \* this._overlayCanvas
  mainCtx,             \* this._mainCtx: "undefined", "2d" or "null"
  overlayCtx,          \* this._overlayCtx: "undefined", "2d" or "null"
  constructed,         \* whether initDom has returned to the constructor
  widgetRaised,        \* whether the latest widget operation ended in a TypeError
  pixelRatio,          \* getPixelRatio(canvas), a property of the display: <<num, den>>
  canvasOps,           \* the canvas operations of the latest step, in program order
  lastCall,            \* history: level and sizeFlag of the latest updateImp call
  replacedIds,         \* history: handles whose callback a later request replaced
  executedIds,         \* history: handles whose callback the host executed
  callsSinceFire,      \* history: updateImp calls since the last executed callback
  firesSinceCall,      \* history: callbacks executed since the latest updateImp call
  lastBurst,           \* history: callsSinceFire at the moment of the last execution
  pendingClears        \* history: canvases cleared by updateImp and not redrawn since

widgetVars == <<requestAnimationId, frameQueue, nextFrameId, container, mainCanvas,
                overlayCanvas, mainCtx, overlayCtx, constructed, widgetRaised,
                pixelRatio, canvasOps, lastCall, replacedIds, executedIds,
                callsSinceFire, firesSinceCall, lastBurst, pendingClears>>

\* GraphicMark
VARIABLES
  totalStep,        \* this._totalStep
  drawStep,         \* this._drawStep
  tpPoints,         \* this._tpPoints: a JavaScript array, as a map from keys to points
  hoverType,        \* this._hoverType
  hoverIndex,       \* this._hoverIndex
  raised,           \* whether the latest operation ended in a TypeError
  returned,         \* what the latest operation returned to its caller
  lastOp,           \* history: the name of the latest operation
  lastPixel,        \* history: the mouse position passed to the latest operation
  lastShape,        \* history: the shape that the latest query's checkMousePointOn accepted
  graphicOptions,   \* the groups that createGraphicOptions gave to the latest operation
  rendered,         \* the render calls of the latest operation, in program order
  clicks,           \* history: mouseLeftButtonDownForDrawing calls so far
  movedSinceClick,  \* history: mouseMoveForDrawing was called since the last click
  allMoved,         \* history: every click so far followed a move made after the one before
  clickedFinished   \* history: some click was made on a FINISHED mark

markVars == <<totalStep, drawStep, tpPoints, hoverType, hoverIndex, raised, returned,
              lastOp, lastPixel, lastShape, graphicOptions, rendered, clicks,
              movedSinceClick, allMoved, clickedFinished>>

\* CandleWidget with CandleAreaView and SessionBreakView
VARIABLES
  animation,           \* CandleAreaView._animation: running, duration, elapsed time
  animationFrameTime,  \* CandleAreaView._animationFrameTime
  rippleFigure,        \* CandleAreaView._figure: {} for null, else {attrs}
  redrawRequests,      \* updatePane(UpdateLevel.Main) requests since the latest pass
  drawnViews,          \* the views that the latest updateMainContent drew, in order
  sessionLines,        \* the figures that SessionBreakView drew in the latest pass
  candlePass           \* history: what the latest updateMainContent read

candleVars == <<animation, animationFrameTime, rippleFigure, redrawRequests,
                drawnViews, sessionLines, candlePass>>

DEFAULT_REQUEST_ID == -1

\* UpdateLevel, as far as updateImp distinguishes it
UpdateLevel == {"MAIN", "OVERLAY", "DRAWER", "ALL"}

\* the display's device pixel ratios considered, as fractions
PixelRatios == {<<1, 1>>, <<3, 2>>}

NoCall == [level |-> "NONE", sizeFlag |-> FALSE]

\* a canvas element before its first resize: no style size, default backing store
NewCanvas == [style |-> <<>>, size |-> <<>>, scale |-> <<1, 1>>, content |-> "blank"]

\* host: cancelAnimationFrame(id) drops the callback registered under id, if any
cancelAnimationFrame(queue, id) == {cb \in queue : cb.id # id}

\* host: requestAnimationFrame(cb) registers cb under a fresh handle
requestAnimationFrame(queue, id, update) == queue \cup {[id |-> id, update |-> update]}

\* faulty variant: the previous request is not cancelled
_optimalUpdate_keepsOld(update) ==
  /\ frameQueue' = requestAnimationFrame(frameQueue, nextFrameId, update)
  /\ requestAnimationId' = nextFrameId
  /\ nextFrameId' = nextFrameId + 1
  /\ replacedIds' = replacedIds \cup {cb.id : cb \in frameQueue}

\* faulty variant: a request made while one is pending is dropped (first writer wins)
_optimalUpdate_firstWins(update) ==
  /\ frameQueue' = IF frameQueue = {}
                     THEN requestAnimationFrame(frameQueue, nextFrameId, update)
                     ELSE frameQueue
  /\ requestAnimationId' = IF frameQueue = {} THEN nextFrameId ELSE requestAnimationId
  /\ nextFrameId' = nextFrameId + 1
  /\ replacedIds' = replacedIds

\* DrawWidget._optimalUpdate: cancel the pending request, if any, and request anew
_optimalUpdate(update) ==
  LET queue == IF requestAnimationId # DEFAULT_REQUEST_ID
                 THEN cancelAnimationFrame(frameQueue, requestAnimationId)
                 ELSE frameQueue
  IN /\ frameQueue' = requestAnimationFrame(queue, nextFrameId, update)
     /\ requestAnimationId' = nextFrameId
     /\ nextFrameId' = nextFrameId + 1
     /\ replacedIds' = replacedIds \cup {cb.id : cb \in frameQueue}

\* sizeFlag of updateImp
SizeFlag(width, height) ==
  width # container.offsetWidth \/ height # container.offsetHeight

\* faulty variant: a resize keeps the requested level
ResolveLevel_noEscalation(level, sizeFlag) == level

\* updateImp: l, the level after the resize escalation
ResolveLevel(level, sizeFlag) == IF sizeFlag THEN "DRAWER" ELSE level

\* Math.floor(n * pixelRatio)
Scale(n, ratio) == (n * ratio[1]) \div ratio[2]

\* the resize branch applied to one canvas: style size, backing store, ctx.scale
Resized(canvas, width, height) ==
  [style |-> <<width, height>>,
   size |-> <<Scale(width, pixelRatio), Scale(height, pixelRatio)>>,
   scale |-> pixelRatio,
   content |-> "blank"]

\* ctx.clearRect over the whole canvas
Cleared(canvas) == [canvas EXCEPT !.content = "blank"]

\* faulty variant: without a size change every level clears both canvases
ClearsMain_always(l) == TRUE

\* updateImp, no size change: the levels that clear the main canvas
ClearsMain(l) == l = "ALL" \/ l = "DRAWER" \/ l = "MAIN"

\* updateImp, no size change: the levels that clear the overlay canvas
ClearsOverlay(l) == l = "ALL" \/ l = "DRAWER" \/ l = "OVERLAY"

\* faulty variant: the combined redraw paints the overlay first
Dispatch_overlayFirst(l) ==
  CASE l = "MAIN" -> <<"updateMain">>
    [] l = "OVERLAY" -> <<"updateOverlay">>
    [] OTHER -> <<"updateOverlay", "updateMain">>

\* updateImp: the switch over l; the body of the callback it hands to _optimalUpdate
Dispatch(l) ==
  CASE l = "MAIN" -> <<"updateMain">>
    [] l = "OVERLAY" -> <<"updateOverlay">>
    [] l \in {"DRAWER", "ALL"} -> <<"updateMain", "updateOverlay">>

\* DrawWidget.initDom(container), as the constructor of Widget calls it. The
\* host's getContext('2d') gives a context or null; the result is cast and
\* stored without a test, and initDom returns normally either way.
initDom(mainContext, overlayContext) ==
  /\ ~constructed
  /\ mainCtx' = mainContext
  /\ overlayCtx' = overlayContext
  /\ constructed' = TRUE
  /\ widgetRaised' = FALSE
  /\ UNCHANGED <<requestAnimationId, frameQueue, nextFrameId, container, mainCanvas,
                 overlayCanvas, pixelRatio, canvasOps, lastCall, replacedIds,
                 executedIds, callsSinceFire, firesSinceCall, lastBurst, pendingClears>>
  /\ UNCHANGED <<markVars, candleVars>>

\* the canvases that a sequence of canvas operations clears
ClearedBy(ops) ==
  {canvas \in {"main", "overlay"} :
     \E i \in 1..Len(ops) :
       ops[i] = (IF canvas = "main" THEN "clearMain" ELSE "clearOverlay")}

\* DrawWidget.updateImp(level, container, bounding). clearRect on a context that
\* is null throws a TypeError, which ends the call where it stands.
updateImp(level, left, width, height) ==
  LET sizeFlag == SizeFlag(width, height)
      l == ResolveLevel(level, sizeFlag)
      mainThrows == (sizeFlag \/ ClearsMain(l)) /\ mainCtx # "2d"
      overlayThrows == (sizeFlag \/ ClearsOverlay(l)) /\ overlayCtx # "2d"
  IN /\ constructed
     /\ nextFrameId <= MaxRequests
     /\ callsSinceFire < MaxRequests
     /\ IF mainThrows \/ overlayThrows
          THEN /\ container' = [container EXCEPT !.left = left]
               /\ mainCanvas' = IF mainThrows THEN mainCanvas ELSE Cleared(mainCanvas)
               /\ canvasOps' = IF mainThrows THEN <<>> ELSE <<"clearMain">>
               /\ widgetRaised' = TRUE
               /\ UNCHANGED <<overlayCanvas, frameQueue, requestAnimationId, nextFrameId,
                              replacedIds>>
          ELSE /\ IF sizeFlag
                    THEN /\ container' = [left |-> left, offsetWidth |-> width,
                                          offsetHeight |-> height]
                         /\ mainCanvas' = Resized(Cleared(mainCanvas), width, height)
                         /\ overlayCanvas' = Resized(Cleared(overlayCanvas), width, height)
                         /\ canvasOps' = <<"clearMain", "clearOverlay", "resizeMain",
                                           "resizeOverlay">>
                    ELSE /\ container' = [container EXCEPT !.left = left]
                         /\ mainCanvas' =
                              IF ClearsMain(l) THEN Cleared(mainCanvas) ELSE mainCanvas
                         /\ overlayCanvas' =
                              IF ClearsOverlay(l) THEN Cleared(overlayCanvas) ELSE overlayCanvas
                         /\ canvasOps' = (IF ClearsMain(l) THEN <<"clearMain">> ELSE <<>>)
                                           \o (IF ClearsOverlay(l) THEN <<"clearOverlay">>
                                                                   ELSE <<>>)
               /\ _optimalUpdate(Dispatch(l))
               /\ widgetRaised' = FALSE
     /\ pendingClears' = pendingClears \cup ClearedBy(canvasOps')
     /\ lastCall' = [level |-> level, sizeFlag |-> sizeFlag]
     /\ callsSinceFire' = callsSinceFire + 1
     /\ firesSinceCall' = 0
     /\ UNCHANGED <<mainCtx, overlayCtx, constructed, pixelRatio, executedIds, lastBurst>>
     /\ UNCHANGED <<markVars, candleVars>>

\* the canvases that the body of a callback redraws
RedrawnBy(update) ==
  {canvas \in {"main", "overlay"} :
     \E i \in 1..Len(update) :
       update[i] = (IF canvas = "main" THEN "updateMain" ELSE "updateOverlay")}

\* the effect of one call of the callback's body on a canvas
Drawn(canvas, op, update) ==
  IF \E i \in 1..Len(update) : update[i] = op
    THEN [canvas EXCEPT !.content = "drawn"]
    ELSE canvas

\* the host runs one pending callback: () => { update() }
FrameFire ==
  \E cb \in frameQueue :
    /\ frameQueue' = frameQueue \ {cb}
    /\ canvasOps' = cb.update
    /\ mainCanvas' = Drawn(mainCanvas, "updateMain", cb.update)
    /\ overlayCanvas' = Drawn(overlayCanvas, "updateOverlay", cb.update)
    /\ executedIds' = executedIds \cup {cb.id}
    /\ lastBurst' = callsSinceFire
    /\ callsSinceFire' = 0
    /\ firesSinceCall' = firesSinceCall + 1
    /\ pendingClears' = pendingClears \ RedrawnBy(cb.update)
    /\ widgetRaised' = FALSE
    /\ UNCHANGED <<requestAnimationId, nextFrameId, container, mainCtx, overlayCtx,
                   constructed, pixelRatio, lastCall, replacedIds>>
    /\ UNCHANGED <<markVars, candleVars>>


(***************************************************************************)
(* GraphicMark                                                             *)
(***************************************************************************)
GRAPHIC_MARK_DRAW_STEP_START == 1

GRAPHIC_MARK_DRAW_STEP_FINISHED == -1

HoverType == [OTHER |-> "other", POINT |-> "point", NONE |-> "none"]

\* history value: the latest operation took no mouse position
NoPixel == [x |-> -1, y |-> -1]

\* mouse positions, {x, y} in pixels
MousePoints == {[x |-> p, y |-> MaxPixel - p] : p \in 0..MaxPixel}

\* this._xAxis.convertFromPixel: the bar under a pixel (one bar per pixel, the
\* visible window starts at bar 1)
xAxis_convertFromPixel(x) == x + 1

\* this._xAxis.convertToPixel
xAxis_convertToPixel(dataIndex) == dataIndex - 1

\* this._chartData.dataIndexToTimestamp (one bar per minute)
dataIndexToTimestamp(dataIndex) == dataIndex * 60

\* this._chartData.timestampToDataIndex
timestampToDataIndex(timestamp) == timestamp \div 60

\* this._yAxis.convertFromPixel: prices fall as y grows
yAxis_convertFromPixel(y) == 10 - y

\* this._yAxis.convertToPixel
yAxis_convertToPixel(price) == 10 - price

\* faulty variant: the price is left in pixels
TpPoint_pixelPrice(point) ==
  LET dataIndex == xAxis_convertFromPixel(point.x)
  IN [timestamp |-> dataIndexToTimestamp(dataIndex),
      price |-> point.y,
      dataIndex |-> dataIndex]

\* the { timestamp, price, dataIndex } that both mouse handlers derive from a pixel
TpPoint(point) ==
  LET dataIndex == xAxis_convertFromPixel(point.x)
  IN [timestamp |-> dataIndexToTimestamp(dataIndex),
      price |-> yAxis_convertFromPixel(point.y),
      dataIndex |-> dataIndex]

\* array.length: one more than the largest array index in use (a key below 0 is
\* an ordinary property and does not count)
ArrayLength(array) ==
  LET indices == {k \in DOMAIN array : k >= 0}
  IN IF indices = {} THEN 0
     ELSE 1 + (CHOOSE k \in indices : \A j \in indices : j <= k)

\* array[key] = value
ArrayPut(array, key, value) ==
  [k \in (DOMAIN array) \cup {key} |-> IF k = key THEN value ELSE array[k]]

\* GraphicMark.isDrawing
isDrawing == drawStep # GRAPHIC_MARK_DRAW_STEP_FINISHED

\* GraphicMark._timestampOrDataIndexToPointX
_timestampOrDataIndexToPointX(tpPoint) ==
  IF tpPoint.timestamp # 0
    THEN xAxis_convertToPixel(timestampToDataIndex(tpPoint.timestamp))
    ELSE xAxis_convertToPixel(tpPoint.dataIndex)

\* the xyPoint that draw and checkMousePointOnGraphic compute for a placed point
XyPoint(tpPoint) ==
  [x |-> _timestampOrDataIndexToPointX(tpPoint), y |-> yAxis_convertToPixel(tpPoint.price)]

\* graphicMark.point.radius of the style options, in pixels
PointRadius == 0

\* checkPointOnCircle(circleCenterPoint, radius, point)
checkPointOnCircle(center, radius, point) ==
  LET difX == point.x - center.x
      difY == point.y - center.y
  IN ~(difX * difX + difY * difY > radius * radius)

\* faulty variant: the move writes the slot after the one being placed
MoveIndex_next(step) == step

\* mouseMoveForDrawing: the index it writes, this._drawStep - 1
MoveIndex(step) == step - 1

\* GraphicMark.mouseMoveForDrawing(point); performMouseMoveForDrawing is a hook
\* that does nothing in GraphicMark
mouseMoveForDrawing(point) ==
  /\ tpPoints' = ArrayPut(tpPoints, MoveIndex(drawStep), TpPoint(point))
  /\ raised' = FALSE
  /\ returned' = "undefined"
  /\ lastOp' = "mouseMoveForDrawing"
  /\ lastPixel' = point
  /\ lastShape' = -1
  /\ graphicOptions' = <<>>
  /\ rendered' = <<>>
  /\ movedSinceClick' = TRUE
  /\ UNCHANGED <<totalStep, drawStep, hoverType, hoverIndex, clicks, allMoved,
                 clickedFinished>>
  /\ UNCHANGED <<widgetVars, candleVars>>

\* faulty variant: the mark finishes one click late
NextDrawStep_lateFinish(step, total) ==
  IF step = total THEN GRAPHIC_MARK_DRAW_STEP_FINISHED ELSE step + 1

\* faulty variant: the mark never finishes
NextDrawStep_neverFinish(step, total) == step + 1

\* faulty variant: the mark finishes two clicks late
NextDrawStep_finishAfterTotal(step, total) ==
  IF step = total + 1 THEN GRAPHIC_MARK_DRAW_STEP_FINISHED ELSE step + 1

\* faulty variant: a click skips a step
NextDrawStep_skips(step, total) ==
  IF step = total - 1 THEN GRAPHIC_MARK_DRAW_STEP_FINISHED ELSE step + 2

\* mouseLeftButtonDownForDrawing: the step after a click
NextDrawStep(step, total) ==
  IF step = total - 1 THEN GRAPHIC_MARK_DRAW_STEP_FINISHED ELSE step + 1

\* GraphicMark.mouseLeftButtonDownForDrawing()
mouseLeftButtonDownForDrawing ==
  /\ clicks < MaxClicks
  /\ drawStep' = NextDrawStep(drawStep, totalStep)
  /\ raised' = FALSE
  /\ returned' = "undefined"
  /\ lastOp' = "mouseLeftButtonDownForDrawing"
  /\ lastPixel' = NoPixel
  /\ lastShape' = -1
  /\ graphicOptions' = <<>>
  /\ rendered' = <<>>
  /\ clicks' = clicks + 1
  /\ allMoved' = (allMoved /\ movedSinceClick)
  /\ movedSinceClick' = FALSE
  /\ clickedFinished' = (clickedFinished \/ ~isDrawing)
  /\ UNCHANGED <<totalStep, tpPoints, hoverType, hoverIndex>>
  /\ UNCHANGED <<widgetVars, candleVars>>

\* faulty variant: the drag moves every placed point to the mouse
DragPoints_all(points, index, point) ==
  [k \in DOMAIN points |-> TpPoint(point)]

\* mousePressedMove: the three field writes to this._tpPoints[this._hoverIndex]
DragPoints(points, index, point) ==
  [points EXCEPT ![index] = TpPoint(point)]

\* GraphicMark.mousePressedMove(point); performMousePressedMove is a hook that
\* does nothing in GraphicMark. Writing a field of an absent element throws.
mousePressedMove(point) ==
  /\ IF hoverType = HoverType.POINT /\ hoverIndex # -1
       THEN IF hoverIndex \in DOMAIN tpPoints
              THEN /\ tpPoints' = DragPoints(tpPoints, hoverIndex, point)
                   /\ raised' = FALSE
              ELSE /\ tpPoints' = tpPoints
                   /\ raised' = TRUE
       ELSE /\ tpPoints' = tpPoints
            /\ raised' = FALSE
  /\ returned' = "undefined"
  /\ lastOp' = "mousePressedMove"
  /\ lastPixel' = point
  /\ lastShape' = -1
  /\ graphicOptions' = <<>>
  /\ rendered' = <<>>
  /\ UNCHANGED <<totalStep, drawStep, hoverType, hoverIndex, clicks, movedSinceClick,
                 allMoved, clickedFinished>>
  /\ UNCHANGED <<widgetVars, candleVars>>

\* faulty variant: the reset forgets the index
resetHoverParams_keepsIndex ==
  /\ hoverType' = HoverType.NONE
  /\ raised' = FALSE
  /\ returned' = "undefined"
  /\ lastOp' = "resetHoverParams"
  /\ lastPixel' = NoPixel
  /\ lastShape' = -1
  /\ graphicOptions' = <<>>
  /\ rendered' = <<>>
  /\ UNCHANGED <<totalStep, drawStep, tpPoints, hoverIndex, clicks, movedSinceClick,
                 allMoved, clickedFinished>>
  /\ UNCHANGED <<widgetVars, candleVars>>

\* GraphicMark.resetHoverParams()
resetHoverParams ==
  /\ hoverType' = HoverType.NONE
  /\ hoverIndex' = -1
  /\ raised' = FALSE
  /\ returned' = "undefined"
  /\ lastOp' = "resetHoverParams"
  /\ lastPixel' = NoPixel
  /\ lastShape' = -1
  /\ graphicOptions' = <<>>
  /\ rendered' = <<>>
  /\ UNCHANGED <<totalStep, drawStep, tpPoints, clicks, movedSinceClick, allMoved,
                 clickedFinished>>
  /\ UNCHANGED <<widgetVars, candleVars>>

\* checkMousePointOnGraphic, first loop: the indices it reaches before it returns
\* or throws, i.e. those below the first absent element and the first hit
Reached(point) ==
  {i \in 0..(ArrayLength(tpPoints) - 1) :
     \A j \in 0..(i - 1) :
       /\ j \in DOMAIN tpPoints
       /\ ~checkPointOnCircle(XyPoint(tpPoints[j]), PointRadius, point)}

\* checkMousePointOnGraphic: what a query does to the hover state and what it
\* gives back. shape is the index, within its group, of the first checked shape
\* of createGraphicOptions that checkMousePointOn accepts (-1: none, as always
\* in GraphicMark itself)
HoverQuery(point, shape) ==
  LET reached == Reached(point)
      absent == {i \in reached : i \notin DOMAIN tpPoints}
      hits == {i \in reached \ absent :
                 checkPointOnCircle(XyPoint(tpPoints[i]), PointRadius, point)}
  IN IF absent # {}
       THEN \* destructuring an absent element throws before anything is set
            /\ raised' = TRUE
            /\ returned' = "nothing"
            /\ UNCHANGED <<hoverType, hoverIndex>>
       ELSE IF hits # {}
              THEN /\ hoverType' = HoverType.POINT
                   /\ hoverIndex' = CHOOSE i \in hits : TRUE
                   /\ raised' = FALSE
                   /\ returned' = "true"
              ELSE IF shape # -1
                     THEN /\ hoverType' = HoverType.OTHER
                          /\ hoverIndex' = shape
                          /\ raised' = FALSE
                          /\ returned' = "true"
                     ELSE \* this.resetHoverParams(), and no return statement
                          /\ hoverType' = HoverType.NONE
                          /\ hoverIndex' = -1
                          /\ raised' = FALSE
                          /\ returned' = "undefined"

\* faulty variant: a query that hits a point also snaps the mark back to START
checkMousePointOnGraphic_restarts(point, shape) ==
  /\ HoverQuery(point, shape)
  /\ lastOp' = "checkMousePointOnGraphic"
  /\ lastPixel' = point
  /\ lastShape' = shape
  /\ graphicOptions' = <<>>
  /\ rendered' = <<>>
  /\ drawStep' = IF hoverType' = HoverType.POINT
                   THEN GRAPHIC_MARK_DRAW_STEP_START ELSE drawStep
  /\ UNCHANGED <<totalStep, tpPoints, clicks, movedSinceClick, allMoved,
                 clickedFinished>>
  /\ UNCHANGED <<widgetVars, candleVars>>

\* GraphicMark.checkMousePointOnGraphic(point)
checkMousePointOnGraphic(point, shape) ==
  /\ HoverQuery(point, shape)
  /\ lastOp' = "checkMousePointOnGraphic"
  /\ lastPixel' = point
  /\ lastShape' = shape
  /\ graphicOptions' = <<>>
  /\ rendered' = <<>>
  /\ UNCHANGED <<totalStep, drawStep, tpPoints, clicks, movedSinceClick, allMoved,
                 clickedFinished>>
  /\ UNCHANGED <<widgetVars, candleVars>>

\* GraphicMarkDrawType
GraphicMarkDrawType == [LINE |-> "line", TEXT |-> "text"]

\* the groups a createGraphicOptions hook may return: { type, isDraw, dataSource },
\* with isDraw possibly left out and dataSource holding one element of the
\* group's type (a line [point, point] or a text { x, y, text })
GraphicGroups ==
  [type : {GraphicMarkDrawType.LINE, GraphicMarkDrawType.TEXT},
   isDraw : {"absent", "true", "false"}]

\* draw: !isValid(isDraw) || isDraw
Drawable(group) == group.isDraw = "absent" \/ group.isDraw = "true"

\* draw: the method that the switch on the group's type calls
GroupRenderer(type) ==
  IF type = GraphicMarkDrawType.LINE THEN "_drawLines"
  ELSE IF type = GraphicMarkDrawType.TEXT THEN "_drawLines"
  ELSE "none"

\* _drawLines reads points[0].x of each element of its dataSource, which throws
\* a TypeError on a text element; _drawText destructures each element
RendererThrows(renderer, type) ==
  renderer = "_drawLines" /\ type = GraphicMarkDrawType.TEXT

\* draw, graphicOptions.forEach: the render calls from group i on, up to and
\* including one that throws
RECURSIVE RenderGroups(_, _)
RenderGroups(options, i) ==
  IF i > Len(options) THEN <<>>
  ELSE LET group == options[i]
           call == [renderer |-> GroupRenderer(group.type), index |-> i, active |-> FALSE]
       IN IF ~Drawable(group) \/ call.renderer = "none"
            THEN RenderGroups(options, i + 1)
            ELSE IF RendererThrows(call.renderer, group.type)
                   THEN <<call>>
                   ELSE <<call>> \o RenderGroups(options, i + 1)

\* whether some call of RenderGroups throws
GroupsThrow(options) ==
  \E i \in 1..Len(options) :
    /\ Drawable(options[i])
    /\ RendererThrows(GroupRenderer(options[i].type), options[i].type)

\* draw, xyPoints.forEach: one circle per placed point from index i on (forEach
\* skips absent elements), the hovered point in the active style
RECURSIVE HoverCircles(_)
HoverCircles(i) ==
  IF i >= ArrayLength(tpPoints) THEN <<>>
  ELSE (IF i \in DOMAIN tpPoints
          THEN <<[renderer |-> "renderStrokeFillCircle", index |-> i,
                  active |-> (hoverType = HoverType.POINT /\ i = hoverIndex)]>>
          ELSE <<>>) \o HoverCircles(i + 1)

\* GraphicMark.draw(ctx). options is what the createGraphicOptions hook returns
\* (GraphicMark's own returns nothing, which draw reads as []); drawExtend is a
\* hook that does nothing in GraphicMark. Array.map skips absent elements.
draw(options) ==
  LET drawsGroups == drawStep # GRAPHIC_MARK_DRAW_STEP_START /\ ArrayLength(tpPoints) > 0
      thrown == drawsGroups /\ GroupsThrow(options)
  IN /\ graphicOptions' = IF drawsGroups THEN options ELSE <<>>
     /\ rendered' = (IF drawsGroups THEN RenderGroups(options, 1) ELSE <<>>)
                      \o (IF thrown \/ hoverType = HoverType.NONE
                            THEN <<>> ELSE HoverCircles(0))
     /\ raised' = thrown
     /\ returned' = IF thrown THEN "nothing" ELSE "undefined"
     /\ lastOp' = "draw"
     /\ lastPixel' = NoPixel
     /\ lastShape' = -1
     /\ UNCHANGED <<totalStep, drawStep, tpPoints, hoverType, hoverIndex, clicks,
                    movedSinceClick, allMoved, clickedFinished>>
     /\ UNCHANGED <<widgetVars, candleVars>>

Draw ==
  \E n \in 0..MaxGroups : \E options \in [1..n -> GraphicGroups] : draw(options)

MouseMoveForDrawing == \E point \in MousePoints : mouseMoveForDrawing(point)

MousePressedMove == \E point \in MousePoints : mousePressedMove(point)

CheckMousePointOnGraphic ==
  \E point \in MousePoints, shape \in -1..(MaxShapes - 1) :
    checkMousePointOnGraphic(point, shape)

\* new GraphicMark(id, name, totalStep, chartData, xAxis, yAxis)
MarkInit ==
  /\ totalStep \in 1..MaxTotalStep
  /\ drawStep = GRAPHIC_MARK_DRAW_STEP_START
  /\ tpPoints = <<>>
  /\ hoverType = HoverType.NONE
  /\ hoverIndex = -1
  /\ raised = FALSE
  /\ returned = "undefined"
  /\ lastOp = "constructor"
  /\ lastPixel = NoPixel
  /\ lastShape = -1
  /\ graphicOptions = <<>>
  /\ rendered = <<>>
  /\ clicks = 0
  /\ movedSinceClick = FALSE
  /\ allMoved = TRUE
  /\ clickedFinished = FALSE

MarkNext ==
  \/ MouseMoveForDrawing
  \/ mouseLeftButtonDownForDrawing
  \/ MousePressedMove
  \/ CheckMousePointOnGraphic
  \/ resetHoverParams

(***************************************************************************)
(* CandleWidget with CandleAreaView and SessionBreakView                   *)
(***************************************************************************)
\* CandleType, as far as updateMainContent distinguishes it
CandleTypes == {"area", "candle_solid"}

\* styles.candle.area.point, as far as drawImp reads it
PointStyles ==
  [show : BOOLEAN, animation : BOOLEAN, radius : {4}, rippleRadius : {8},
   animationDuration : {2}]

\* chartStore.getTimeframeDuration()
Timeframes == {0, 60}

\* KLineData: close (styles.value), {} when it is not a number, and isStartOfSession
KLineData == [close : {{}, {3}}, isStartOfSession : BOOLEAN]

\* VisibleData.data: {} for null, else {kLineData}
AnyData == {{}} \cup {{k} : k \in KLineData}

\* the visible window over the given data: VisibleData { dataIndex, x, data }
Window(datas) ==
  [i \in 1..Len(datas) |-> [dataIndex |-> i - 1, x |-> 8 * i - 4, data |-> datas[i]]]

\* the visible windows whose points carry data of the given set
Windows(dataSet) ==
  UNION {{Window(datas) : datas \in [1..n -> dataSet]} : n \in 0..MaxVisible}

\* new Animation({ iterationCount: Infinity })
NewAnimation == [running |-> FALSE, duration |-> 1, time |-> 0]

\* Animation.setDuration(duration)
Animation_setDuration(anim, duration) == [anim EXCEPT !.duration = duration]

\* Animation.start(): does nothing while the animation runs
Animation_start(anim) ==
  IF anim.running THEN anim ELSE [anim EXCEPT !.running = TRUE, !.time = 0]

\* Animation.stop()
Animation_stop(anim) == [anim EXCEPT !.running = FALSE]

\* drawImp, eachChildren callback: indicatePointCoordinate, {} for null
IndicatePoint(window, lastDataIndex) ==
  UNION {{[x |-> window[i].x, y |-> yAxis_convertToPixel(value)] :
            value \in UNION {k.close : k \in window[i].data}} :
         i \in {j \in 1..Len(window) : window[j].dataIndex = lastDataIndex}}

\* CandleAreaView.drawImp(ctx): what it does to the animation and the retained
\* ripple figure
CandleAreaView_drawImp(pointStyles, window, lastDataIndex) ==
  LET indicate == IndicatePoint(window, lastDataIndex)
  IN IF pointStyles.show /\ indicate # {}
       THEN LET point == CHOOSE c \in indicate : TRUE
                rippleRadius ==
                  IF pointStyles.animation
                    THEN pointStyles.radius
                           + (animationFrameTime
                                * (pointStyles.rippleRadius - pointStyles.radius))
                               \div pointStyles.animationDuration
                    ELSE pointStyles.rippleRadius
            IN /\ animation' =
                    IF pointStyles.animation
                      THEN Animation_start(
                             Animation_setDuration(animation, pointStyles.animationDuration))
                      ELSE animation
               /\ rippleFigure' =
                    IF rippleFigure = {}
                      THEN {[x |-> point.x, y |-> point.y, r |-> pointStyles.rippleRadius]}
                      ELSE {[x |-> point.x, y |-> point.y, r |-> rippleRadius]}
       ELSE /\ animation' = Animation_stop(animation)
            /\ rippleFigure' = rippleFigure

\* faulty variant: a line at every point that has data
SessionBreakFigures_everyPoint(data, height) ==
  IF data.data # {}
    THEN <<[name |-> "line", size |-> 1,
            coordinates |-> <<[x |-> data.x, y |-> 0], [x |-> data.x, y |-> height]>>]>>
    ELSE <<>>

\* SessionBreakView.drawImp, eachChildren callback: the figures drawn for one point
SessionBreakFigures(data, height) ==
  IF data.data # {} /\ (\E kLineData \in data.data : kLineData.isStartOfSession)
    THEN <<[name |-> "line", size |-> 1,
            coordinates |-> <<[x |-> data.x, y |-> 0], [x |-> data.x, y |-> height]>>]>>
    ELSE <<>>

\* SessionBreakView.drawImp(ctx): eachChildren visits the window once, in order
RECURSIVE SessionBreakView_drawImp(_, _, _)
SessionBreakView_drawImp(window, i, height) ==
  IF i > Len(window) THEN <<>>
  ELSE SessionBreakFigures(window[i], height)
         \o SessionBreakView_drawImp(window, i + 1, height)

\* updateMainContent: settings.drawSessionBreak && timeframe > 0
DrawsSessionBreak(drawSessionBreak, timeframe) == drawSessionBreak /\ timeframe > 0

\* CandleWidget.updateMainContent(ctx)
updateMainContent(type, pointStyles, drawSessionBreak, timeframe, window, lastDataIndex, height) ==
  /\ IF type # "area"
       THEN \* this._candleAreaView.stopAnimation()
            /\ animation' = Animation_stop(animation)
            /\ rippleFigure' = rippleFigure
       ELSE CandleAreaView_drawImp(pointStyles, window, lastDataIndex)
  /\ drawnViews' = (IF type # "area"
                      THEN <<"candleBarView", "candleHighLowPriceView">>
                      ELSE <<"candleAreaView">>)
                     \o <<"candleLastPriceLineView">>
                     \o (IF DrawsSessionBreak(drawSessionBreak, timeframe)
                           THEN <<"sessionBreakView">> ELSE <<>>)
  /\ sessionLines' = IF DrawsSessionBreak(drawSessionBreak, timeframe)
                       THEN SessionBreakView_drawImp(window, 1, height)
                       ELSE <<>>
  /\ redrawRequests' = 0
  /\ candlePass' = [type |-> type, pointStyles |-> pointStyles,
                    drawSessionBreak |-> drawSessionBreak, timeframe |-> timeframe,
                    window |-> window, lastDataIndex |-> lastDataIndex,
                    height |-> height]
  /\ UNCHANGED animationFrameTime
  /\ UNCHANGED <<widgetVars, markVars>>

\* one frame of the running animation: the doFrame callback of CandleAreaView
\* stores the elapsed time and asks the chart to update the pane at level Main
AnimationFrame ==
  /\ animation.running
  /\ redrawRequests < MaxFrames
  /\ LET time == (animation.time + 1) % animation.duration
     IN /\ animation' = [animation EXCEPT !.time = time]
        /\ animationFrameTime' = time
  /\ redrawRequests' = redrawRequests + 1
  /\ UNCHANGED <<rippleFigure, drawnViews, sessionLines, candlePass>>
  /\ UNCHANGED <<widgetVars, markVars>>

\* history value: updateMainContent has not run
NoPass ==
  [type |-> "none", pointStyles |-> CHOOSE p \in PointStyles : ~p.show /\ ~p.animation,
   drawSessionBreak |-> FALSE, timeframe |-> 0, window |-> <<>>, lastDataIndex |-> -1,
   height |-> 0]

\* new CandleWidget(rootContainer, pane)
CandleInit ==
  /\ animation = NewAnimation
  /\ animationFrameTime = 0
  /\ rippleFigure = {}
  /\ redrawRequests = 0
  /\ drawnViews = <<>>
  /\ sessionLines = <<>>
  /\ candlePass = NoPass

\* a pass over a window in which the last data point may or may not be visible,
\* with the session breaks switched off
AreaPass ==
  \E type \in CandleTypes, pointStyles \in PointStyles,
     window \in Windows({d \in AnyData : \A k \in d : ~k.isStartOfSession}),
     beyond \in {0, 1} :
    updateMainContent(type, pointStyles, FALSE, 0, window, Len(window) - 1 + beyond,
                      MaxDim)

\* a pass over a window that ends at the last data point, the indicated point
\* not shown
SessionPass ==
  \E type \in CandleTypes, drawSessionBreak \in BOOLEAN, timeframe \in Timeframes,
     window \in Windows({d \in AnyData : \A k \in d : k.close # {}}),
     height \in 0..MaxDim :
    updateMainContent(type, CHOOSE p \in PointStyles : ~p.show /\ ~p.animation,
                      drawSessionBreak, timeframe, window, Len(window) - 1, height)

(***************************************************************************)
(* Specifications                                                          *)
(***************************************************************************)
UpdateImpCall ==
  \E level \in UpdateLevel, left \in 0..MaxLeft, width \in 0..MaxDim, height \in 0..MaxDim :
    updateImp(level, left, width, height)

\* the field initialisers of DrawWidget, in a fresh container
WidgetFields ==
  /\ requestAnimationId = DEFAULT_REQUEST_ID
  /\ frameQueue = {}
  /\ nextFrameId = 1
  /\ container = [left |-> 0, offsetWidth |-> 0, offsetHeight |-> 0]
  /\ mainCanvas = NewCanvas
  /\ overlayCanvas = NewCanvas
  /\ pixelRatio \in PixelRatios
  /\ widgetRaised = FALSE
  /\ canvasOps = <<>>
  /\ lastCall = NoCall
  /\ replacedIds = {}
  /\ executedIds = {}
  /\ callsSinceFire = 0
  /\ firesSinceCall = 0
  /\ lastBurst = 0
  /\ pendingClears = {}

\* a DrawWidget constructed in a host that provides both 2D contexts
WidgetInit ==
  /\ WidgetFields
  /\ mainCtx = "2d"
  /\ overlayCtx = "2d"
  /\ constructed = TRUE

\* a DrawWidget about to be constructed: initDom has not run
WidgetNew ==
  /\ WidgetFields
  /\ mainCtx = "undefined"
  /\ overlayCtx = "undefined"
  /\ constructed = FALSE

InitDomCall ==
  \E mainContext \in {"2d", "null"}, overlayContext \in {"2d", "null"} :
    initDom(mainContext, overlayContext)

WidgetNext ==
  \/ UpdateImpCall
  \/ FrameFire

vars == <<widgetVars, markVars>>

\* a DrawWidget on any display, beside a mark that is left alone
InitWidget == WidgetInit /\ MarkInit /\ CandleInit /\ totalStep = MaxTotalStep

\* a GraphicMark of any totalStep, beside a widget that is left alone
InitMark == WidgetInit /\ MarkInit /\ CandleInit /\ pixelRatio = <<1, 1>>

\* a DrawWidget under updateImp calls and host frames
SpecWidget == InitWidget /\ [][WidgetNext]_vars

HostNext ==
  \/ InitDomCall
  \/ UpdateImpCall
  \/ FrameFire

\* a DrawWidget from its construction on, in a host that may lack 2D contexts
InitHost ==
  WidgetNew /\ MarkInit /\ CandleInit /\ totalStep = MaxTotalStep /\ pixelRatio = <<1, 1>>

SpecHost == InitHost /\ [][HostNext]_vars

\* a CandleWidget, beside a mark and the canvases that are left alone
InitCandle ==
  WidgetInit /\ MarkInit /\ CandleInit /\ totalStep = MaxTotalStep /\ pixelRatio = <<1, 1>>

AreaNext ==
  \/ AreaPass
  \/ AnimationFrame

\* the area view of a CandleWidget under draw passes and animation frames
SpecArea == InitCandle /\ [][AreaNext]_vars

SessionNext == SessionPass

\* the session break view of a CandleWidget under draw passes
SpecSession == InitCandle /\ [][SessionNext]_vars

\* a GraphicMark under the mouse operations
SpecMark == InitMark /\ [][MarkNext]_vars

MarkDrawNext ==
  \/ MarkNext
  \/ Draw

\* a GraphicMark under the mouse operations and draw passes
SpecMarkDraw == InitMark /\ [][MarkDrawNext]_vars

(***************************************************************************)
(* Properties of DrawWidget                                                *)
(***************************************************************************)
Ops(seq) == {seq[i] : i \in 1..Len(seq)}

Before(seq, a, b) ==
  \A i, j \in 1..Len(seq) : (seq[i] = a /\ seq[j] = b) => i < j

\* the redraw a call is expected to lead to, as the set of update methods run
ExpectedRedraw(call) ==
  IF call.sizeFlag \/ call.level \in {"ALL", "DRAWER"}
    THEN {"updateMain", "updateOverlay"}
    ELSE IF call.level = "MAIN" THEN {"updateMain"} ELSE {"updateOverlay"}

\* the canvases a level implicates, as the set of clears expected
ExpectedClears(level) ==
  IF level \in {"ALL", "DRAWER"}
    THEN {"clearMain", "clearOverlay"}
    ELSE IF level = "MAIN" THEN {"clearMain"} ELSE {"clearOverlay"}

JustCalled == lastCall # NoCall /\ firesSinceCall = 0

\* C1: after any interleaving of updateImp calls and frame firings at most one
\* redraw callback is pending, and no callback that a later updateImp call
\* replaced before it fired is ever executed.
C1_OnePendingNoStale ==
  /\ Cardinality(frameQueue) <= 1
  /\ executedIds \cap replacedIds = {}

\* C1 witness: callbacks were replaced, a callback ran, and one is pending again
C1_Witness ==
  /\ Cardinality(replacedIds) >= 2
  /\ executedIds # {}
  /\ Cardinality(frameQueue) = 1

\* C2: a burst of N >= 1 updateImp calls with no frame in between leads, once
\* the frame fires, to exactly one executed redraw, the one the last call of
\* the burst implies (both canvases when that call saw a size change).
C2_CoalescedToLastCall ==
  /\ firesSinceCall <= 1
  /\ JustCalled =>
       /\ Cardinality(frameQueue) = 1
       /\ \A cb \in frameQueue : Ops(cb.update) = ExpectedRedraw(lastCall)
  /\ firesSinceCall = 1 =>
       /\ frameQueue = {}
       /\ Ops(canvasOps) = ExpectedRedraw(lastCall)

\* C2 witness: a burst of three calls of differing levels ended by one redraw,
\* the overlay-only redraw of its last call
C2_Witness ==
  /\ lastBurst >= 3
  /\ firesSinceCall = 1
  /\ lastCall = [level |-> "OVERLAY", sizeFlag |-> FALSE]
  /\ canvasOps = <<"updateOverlay">>
  /\ mainCanvas.content = "blank"

\* C3: an updateImp call whose reported width or height differs from the
\* current size clears both canvases, resizes both, and schedules a redraw of
\* both main and overlay, whatever the requested level.
C3_ResizeForcesFullRedraw ==
  (JustCalled /\ lastCall.sizeFlag) =>
    /\ Ops(canvasOps) = {"clearMain", "clearOverlay", "resizeMain", "resizeOverlay"}
    /\ mainCanvas.content = "blank" /\ overlayCanvas.content = "blank"
    /\ mainCanvas.style = <<container.offsetWidth, container.offsetHeight>>
    /\ overlayCanvas.style = mainCanvas.style
    /\ overlayCanvas.size = mainCanvas.size
    /\ \E cb \in frameQueue : Ops(cb.update) = {"updateMain", "updateOverlay"}

\* C3 witness: a resizing call that asked for the overlay only, on a widget
\* whose canvases had been drawn and sized before
C3_Witness ==
  /\ JustCalled
  /\ lastCall = [level |-> "OVERLAY", sizeFlag |-> TRUE]
  /\ executedIds # {}
  /\ container.offsetWidth # container.offsetHeight

\* C4: an updateImp call without a size change clears exactly the canvases its
\* level implicates, and the one callback it schedules redraws exactly those.
C4_ClearsAndRedrawsByLevel ==
  (JustCalled /\ ~lastCall.sizeFlag) =>
    /\ Ops(canvasOps) = ExpectedClears(lastCall.level)
    /\ Cardinality(frameQueue) = 1
    /\ \A cb \in frameQueue :
         {"clearMain"} \cap Ops(canvasOps) # {} <=> "updateMain" \in Ops(cb.update)
    /\ \A cb \in frameQueue :
         {"clearOverlay"} \cap Ops(canvasOps) # {} <=> "updateOverlay" \in Ops(cb.update)

\* C4 witness: an overlay-only call without a size change on a drawn main canvas
C4_Witness ==
  /\ JustCalled
  /\ lastCall = [level |-> "OVERLAY", sizeFlag |-> FALSE]
  /\ mainCanvas.content = "drawn"
  /\ overlayCanvas.content = "blank"

\* C5: when both canvases are requested together the main canvas is cleared
\* before the overlay canvas, and the executed callback runs updateMain before
\* updateOverlay.
C5_MainBeforeOverlay ==
  /\ Before(canvasOps, "clearMain", "clearOverlay")
  /\ Before(canvasOps, "updateMain", "updateOverlay")
  /\ \A cb \in frameQueue : Before(cb.update, "updateMain", "updateOverlay")

\* C5 witness: the callback of a call for both canvases has run both updates
C5_Witness ==
  /\ firesSinceCall = 1
  /\ lastCall.level = "ALL"
  /\ Len(canvasOps) = 2
  /\ mainCanvas.content = "drawn" /\ overlayCanvas.content = "drawn"

(***************************************************************************)
(* Properties of GraphicMark                                               *)
(***************************************************************************)
\* points.length
PointsLength == ArrayLength(tpPoints)

Finished == drawStep = GRAPHIC_MARK_DRAW_STEP_FINISHED

\* Placement monotonicity, for the marks it is stated of: the mark is FINISHED
\* after exactly totalStep-1 clicks, not before, and right after the j-th click
\* of a placement whose clicks each followed a move there are j points.
PlacementMonotonicity ==
  /\ (clicks < totalStep - 1 /\ ~clickedFinished) => ~Finished
  /\ clicks = totalStep - 1 => Finished
  /\ (clicks <= totalStep - 1 /\ allMoved /\ ~movedSinceClick) => PointsLength = clicks

\* C6 as stated: placement monotonicity for every totalStep = K >= 1.
C6_Original == PlacementMonotonicity

\* C6, amended: for a mark with totalStep = K >= 2 exactly K-1 clicks from the
\* initial state are required to reach FINISHED, and after j such clicks, each
\* preceded by a mouseMoveForDrawing, points.length = j.
C6_PlacementMonotonicity == totalStep >= 2 => PlacementMonotonicity

\* C6 witness: a mark of three or more steps finished by totalStep-1 clicks that
\* each followed a move
C6_Witness ==
  /\ totalStep >= 3
  /\ clicks = totalStep - 1
  /\ allMoved
  /\ Finished
  /\ PointsLength = clicks

C8_Original == 0 <= PointsLength /\ PointsLength <= totalStep

\* C8, amended: with totalStep >= 2, 0 <= points.length <= totalStep in every
\* reachable state.
C8_PointsLengthBound == totalStep >= 2 => (0 <= PointsLength /\ PointsLength <= totalStep)

\* C8 witness: a mark clicked on after it finished, with as many points as marks
\* of its totalStep ever hold
C8_Witness ==
  /\ totalStep = 2
  /\ clickedFinished
  /\ movedSinceClick
  /\ PointsLength = totalStep - 1

\* C9 as stated, on marks of totalStep >= 2 placed with a move before every
\* click: a FINISHED mark has exactly totalStep points and a mark still being
\* placed has fewer.
C9_Original ==
  (totalStep >= 2 /\ allMoved) =>
    /\ Finished => PointsLength = totalStep
    /\ ~Finished => PointsLength < totalStep

\* C9, amended: a mark of totalStep >= 2 always has fewer than totalStep points,
\* and once it is FINISHED by clicks that each followed a move it has exactly
\* totalStep-1.
C9_PointsWhenFinished ==
  totalStep >= 2 =>
    /\ PointsLength < totalStep
    /\ (Finished /\ allMoved) => PointsLength = totalStep - 1

\* C9 witness: a two-step mark finished by one click after a move
C9_Witness ==
  /\ totalStep = 2
  /\ Finished
  /\ allMoved
  /\ clicks = 1
  /\ PointsLength = 1

\* the two-point line scenario on a mark of a given totalStep: move and click,
\* move, click
TwoPointLineScenario(total) ==
  (totalStep = total /\ allMoved) =>
    /\ (clicks = 1 /\ ~movedSinceClick) => (drawStep = 2 /\ PointsLength = 1)
    /\ (clicks = 1 /\ movedSinceClick) =>
         (drawStep = 2 /\ 1 \in DOMAIN tpPoints /\ PointsLength = 2)
    /\ clicks = 2 => (Finished /\ PointsLength = 2)

\* C10 as stated: with totalStep = 2, a move and a first click give PLACING(2)
\* with one point, a following move sets points[1] and leaves PLACING(2), and
\* the second click gives FINISHED with two points.
C10_Original == TwoPointLineScenario(2)

\* C10, amended: the scenario holds of a mark with totalStep = 3; with
\* totalStep = 2 the first click after a move already gives FINISHED, with one
\* point.
C10_TwoPointLine ==
  /\ TwoPointLineScenario(3)
  /\ (totalStep = 2 /\ allMoved /\ clicks = 1) => (Finished /\ PointsLength = 1)

\* C10 witness: the scenario's end on a three-step mark, its two points placed
\* at different pixels
C10_Witness ==
  /\ totalStep = 3
  /\ clicks = 2
  /\ allMoved
  /\ ~clickedFinished
  /\ Finished
  /\ DOMAIN tpPoints = {0, 1}
  /\ tpPoints[0] # tpPoints[1]

(***************************************************************************)
(* Properties of GraphicMark: moves, hover queries and draw                *)
(***************************************************************************)
\* tp holds the data index, timestamp and price that the axes resolve for pixel
ResolvedFrom(tp, pixel) ==
  /\ tp.dataIndex = xAxis_convertFromPixel(pixel.x)
  /\ tp.timestamp = dataIndexToTimestamp(tp.dataIndex)
  /\ tp.price = yAxis_convertFromPixel(pixel.y)

\* the step changes no element of the points array other than the one at index
OnlyPointChanged(index) ==
  /\ DOMAIN tpPoints' = DOMAIN tpPoints \cup {index}
  /\ \A k \in DOMAIN tpPoints : k # index => tpPoints'[k] = tpPoints[k]

\* C11: mousePressedMove changes nothing but points[hoverIndex]. With hoverType
\* POINT and hoverIndex the index of a placed point, that point gets the
\* timestamp, dataIndex and price resolved from the mouse position, every other
\* point stays, and so do drawStep, hoverType and hoverIndex; with any other
\* hoverType nothing changes at all.
C11_PressedMoveFrame ==
  [][lastOp' = "mousePressedMove" =>
       /\ drawStep' = drawStep
       /\ hoverType' = hoverType
       /\ hoverIndex' = hoverIndex
       /\ totalStep' = totalStep
       /\ IF hoverType = HoverType.POINT /\ hoverIndex \in DOMAIN tpPoints
            THEN /\ OnlyPointChanged(hoverIndex)
                 /\ DOMAIN tpPoints' = DOMAIN tpPoints
                 /\ ResolvedFrom(tpPoints'[hoverIndex], lastPixel')
            ELSE tpPoints' = tpPoints]_vars

\* a drag has just moved the hovered point of a mark with two placed points
\* away from the other one, which lies where it was placed
C11_Witness ==
  /\ lastOp = "mousePressedMove"
  /\ hoverType = HoverType.POINT
  /\ hoverIndex = 1
  /\ DOMAIN tpPoints = {0, 1}
  /\ tpPoints[0] # tpPoints[1]
  /\ ~checkPointOnCircle(XyPoint(tpPoints[0]), PointRadius, XyPoint(tpPoints[1]))

\* the indices of the placed points whose hit circle contains pixel
MatchingPoints(pixel) ==
  {i \in DOMAIN tpPoints :
     i >= 0 /\ checkPointOnCircle(XyPoint(tpPoints[i]), PointRadius, pixel)}

\* C12: a checkMousePointOnGraphic query leaves exactly one hover
\* classification; a mouse position inside the hit circle of any placed point
\* yields POINT with hoverIndex the lowest matching index, even when a derived
\* shape is hit as well, and OTHER is produced only when no placed point matches.
C12_PointTakesPrecedence ==
  lastOp = "checkMousePointOnGraphic" =>
    LET matching == MatchingPoints(lastPixel)
    IN /\ hoverType \in {HoverType.POINT, HoverType.OTHER, HoverType.NONE}
       /\ matching # {} =>
            /\ hoverType = HoverType.POINT
            /\ hoverIndex \in matching
            /\ \A i \in matching : hoverIndex <= i
       /\ hoverType = HoverType.OTHER => matching = {}

\* C13: a checkMousePointOnGraphic query that matches neither a placed point nor
\* a derived shape resets the hover state to NONE and -1, whatever it was
\* before, and returns false.
C13_NoMatchResetsAndReturnsFalse ==
  (/\ lastOp = "checkMousePointOnGraphic"
   /\ MatchingPoints(lastPixel) = {}
   /\ lastShape = -1) =>
    /\ hoverType = HoverType.NONE
    /\ hoverIndex = -1
    /\ returned = "false"

\* C14: in PLACING(step), mouseMoveForDrawing writes or overwrites exactly
\* points[step - 1] with the dataIndex, timestamp and price resolved from the
\* mouse position, and leaves drawStep, hoverType, hoverIndex and every other
\* point unchanged.
C14_MoveForDrawingFrame ==
  [][(lastOp' = "mouseMoveForDrawing" /\ drawStep >= GRAPHIC_MARK_DRAW_STEP_START) =>
       /\ drawStep' = drawStep
       /\ hoverType' = hoverType
       /\ hoverIndex' = hoverIndex
       /\ totalStep' = totalStep
       /\ OnlyPointChanged(drawStep - 1)
       /\ ResolvedFrom(tpPoints'[drawStep - 1], lastPixel')]_vars

\* a move in PLACING(2) has just put the second point somewhere else than the
\* first, which it left in place
C14_Witness ==
  /\ lastOp = "mouseMoveForDrawing"
  /\ drawStep = 2
  /\ DOMAIN tpPoints = {0, 1}
  /\ ResolvedFrom(tpPoints[1], lastPixel)
  /\ ~ResolvedFrom(tpPoints[0], lastPixel)

\* C18: checkMousePointOnGraphic is a pure query with respect to geometry: it
\* leaves the points and drawStep as they were and changes hoverType and
\* hoverIndex only.
C18_QueryLeavesGeometry ==
  [][lastOp' = "checkMousePointOnGraphic" =>
       /\ tpPoints' = tpPoints
       /\ drawStep' = drawStep
       /\ totalStep' = totalStep]_vars

\* a query on a finished mark has just changed the hover state to its second point
C18_Witness ==
  /\ lastOp = "checkMousePointOnGraphic"
  /\ drawStep = GRAPHIC_MARK_DRAW_STEP_FINISHED
  /\ hoverType = HoverType.POINT
  /\ hoverIndex = 1
  /\ 1 \in MatchingPoints(lastPixel)

\* the renderer a group of the given type is meant for
MatchingRenderer(type) ==
  IF type = GraphicMarkDrawType.LINE THEN "_drawLines" ELSE "_drawText"

\* the positions in rendered of the group render calls made for group i
GroupCalls(i) ==
  {k \in 1..Len(rendered) :
     /\ rendered[k].renderer \in {"_drawLines", "_drawText"}
     /\ rendered[k].index = i}

\* C15: in a draw with drawStep not START and at least one point, every group
\* whose isDraw is absent or true is drawn, once, by the renderer of its type
\* (LINE by the line renderer, TEXT by the text renderer), and a group whose
\* isDraw is false is not drawn.
C15_GroupsDrawnByTheirRenderer ==
  (/\ lastOp = "draw"
   /\ drawStep # GRAPHIC_MARK_DRAW_STEP_START
   /\ ArrayLength(tpPoints) > 0) =>
    \A i \in 1..Len(graphicOptions) :
      IF Drawable(graphicOptions[i])
        THEN /\ Cardinality(GroupCalls(i)) = 1
             /\ \A k \in GroupCalls(i) :
                  rendered[k].renderer = MatchingRenderer(graphicOptions[i].type)
        ELSE GroupCalls(i) = {}

\* C21: in every reachable state hoverType is NONE exactly when hoverIndex is
\* -1, and hoverType POINT implies 0 <= hoverIndex < points.length with a point
\* at that index, so mousePressedMove never indexes a point that does not exist.
C21_HoverIndexMatchesType ==
  /\ (hoverType = HoverType.NONE) <=> (hoverIndex = -1)
  /\ hoverType = HoverType.POINT =>
       /\ 0 <= hoverIndex
       /\ hoverIndex < ArrayLength(tpPoints)
       /\ hoverIndex \in DOMAIN tpPoints
  /\ lastOp = "mousePressedMove" => ~raised

\* a drag has just moved the hovered first point of a finished mark
C21_Witness ==
  /\ lastOp = "mousePressedMove"
  /\ hoverType = HoverType.POINT
  /\ hoverIndex = 0
  /\ drawStep = GRAPHIC_MARK_DRAW_STEP_FINISHED
  /\ ResolvedFrom(tpPoints[0], lastPixel)

\* C22: after any sequence of moves and clicks, clicks without a move in
\* between included, the points array has no gap: every index below
\* points.length holds a point with a price, so that checkMousePointOnGraphic
\* never reads an absent point.
C22_NoGapInPoints ==
  /\ \A i \in 0..(ArrayLength(tpPoints) - 1) :
       /\ i \in DOMAIN tpPoints
       /\ "price" \in DOMAIN tpPoints[i]
  /\ lastOp = "checkMousePointOnGraphic" => ~raised

\* the elements of a points array, without its other properties
PlacedPoints(array) == [k \in {i \in DOMAIN array : i >= 0} |-> array[k]]

\* C23: FINISHED is absorbing: on a mark whose drawStep is FINISHED, a
\* mouseLeftButtonDownForDrawing or mouseMoveForDrawing call neither makes
\* isDrawing() true again nor changes the placed points.
C23_FinishedIsAbsorbing ==
  [][(/\ drawStep = GRAPHIC_MARK_DRAW_STEP_FINISHED
      /\ lastOp' \in {"mouseLeftButtonDownForDrawing", "mouseMoveForDrawing"}) =>
       /\ drawStep' = GRAPHIC_MARK_DRAW_STEP_FINISHED
       /\ PlacedPoints(tpPoints') = PlacedPoints(tpPoints)]_vars

(***************************************************************************)
(* Properties of DrawWidget: construction and cleared canvases             *)
(***************************************************************************)
\* C17: when the host cannot provide a 2D context for either canvas,
\* construction ends in an error: no widget is left constructed that holds an
\* absent context, and so no later updateImp runs into one.
C17_NoWidgetWithoutContext ==
  /\ constructed => (mainCtx = "2d" /\ overlayCtx = "2d")
  /\ ~widgetRaised

\* C20: once the pending callback of a burst of updateImp calls has run, every
\* canvas that one of the calls cleared has been redrawn; no canvas is left
\* cleared without a redraw (updateImp(MAIN) then updateImp(OVERLAY) before the
\* frame fires still redraws main).
C20_ClearedCanvasesRedrawn ==
  firesSinceCall > 0 => pendingClears = {}

(***************************************************************************)
(* Properties of CandleWidget and its views                                *)
(***************************************************************************)
\* the last data point is in the window the pass read, with a numeric value
LastPointVisible(pass) ==
  \E i \in 1..Len(pass.window) :
    /\ pass.window[i].dataIndex = pass.lastDataIndex
    /\ \E k \in pass.window[i].data : k.close # {}

\* C16: once a CandleAreaView draw pass has seen the animation flag false, or
\* the last data point absent from the visible window, the ripple animation is
\* stopped and makes no further redraw request, until a pass sees the animation
\* enabled and the point visible again.
C16_AnimationStopsWhenOffOrHidden ==
  (/\ candlePass.type = "area"
   /\ ~candlePass.pointStyles.animation \/ ~LastPointVisible(candlePass)) =>
    /\ ~animation.running
    /\ redrawRequests = 0

\* the window positions of the points with data flagged isStartOfSession
SessionStarts(window) ==
  {i \in 1..Len(window) : \E k \in window[i].data : k.isStartOfSession}

SessionBreakInvoked == \E i \in 1..Len(drawnViews) : drawnViews[i] = "sessionBreakView"

\* C19: one SessionBreakView pass draws exactly one vertical line, from y = 0
\* to the bounding height at the point's x, for each visible point whose data
\* is present and flagged isStartOfSession, in the order of the window, and
\* nothing for any other point; CandleWidget runs the pass only when
\* drawSessionBreak is enabled and the timeframe duration is above 0.
C19_SessionBreakLines ==
  candlePass.type # "none" =>
    LET window == candlePass.window
        starts == SessionStarts(window)
    IN IF SessionBreakInvoked
         THEN /\ candlePass.drawSessionBreak
              /\ candlePass.timeframe > 0
              /\ Len(sessionLines) = Cardinality(starts)
              /\ \A i \in starts :
                   LET line == sessionLines[Cardinality({j \in starts : j <= i})]
                   IN /\ line.name = "line"
                      /\ line.coordinates = <<[x |-> window[i].x, y |-> 0],
                                              [x |-> window[i].x,
                                               y |-> candlePass.height]>>
         ELSE sessionLines = <<>>

\* a pass has drawn two lines for a window of three points, skipping one point
\* that is not flagged or has no data
C19_Witness ==
  /\ SessionBreakInvoked
  /\ Len(candlePass.window) = 3
  /\ Cardinality(SessionStarts(candlePass.window)) = 2
  /\ Len(sessionLines) = 2
  /\ candlePass.height > 0

====
